---- MODULE Spec2Model ----
(***************************************************************************)
(* Model of fix-links.py: the script that rewrites absolute internal       *)
(* markdown links ([text](/path)) of every *.md file under website/content *)
(* into relative links.                                                    *)
(*                                                                         *)
(* Text is a sequence of one-character strings, a path is a sequence of    *)
(* segments, a segment is text.                                            *)
(***************************************************************************)
EXTENDS Integers, Sequences, FiniteSets, TLC

\* ------------------------------------------------------------ bounds
MaxDepth == 2
MaxItems == 2
MaxFiles == 2
MaxRuns == 2
MaxRoom == 1

\* ------------------------------------------------------------ text helpers
RECURSIVE Repeat(_, _)
Repeat(s, n) == IF n <= 0 THEN <<>> ELSE s \o Repeat(s, n - 1)

\* str.find(c, i): the first index >= i holding c, 0 when there is none
IndexFrom(s, c, i) ==
  IF \E j \in i..Len(s) : s[j] = c
  THEN CHOOSE j \in i..Len(s) : s[j] = c /\ \A k \in i..(j - 1) : s[k] # c
  ELSE 0

StartsWith(s, p) == Len(s) >= Len(p) /\ SubSeq(s, 1, Len(p)) = p

\* A character outside ASCII is written as the name of its code point, one
\* string for the one character: U+017F is the long s, U+0130 the capital I
\* with a dot above, U+0131 the small i without a dot.
LongS == "U+017F"
DottedI == "U+0130"
DotlessI == "U+0131"

\* re.IGNORECASE on a str pattern, for the letters the external pattern
\* names: the character of the pattern that c matches.  Besides the capital
\* of each letter, the long s matches "s" and both U+0130 and U+0131 match "i";
\* no other character matches a letter of the pattern.
Lower(c) ==
  CASE c = "H" -> "h" [] c = "T" -> "t" [] c = "P" -> "p" [] c = "S" -> "s"
    [] c = "M" -> "m" [] c = "A" -> "a" [] c = "I" -> "i" [] c = "L" -> "l"
    [] c = "O" -> "o"
    [] c = LongS -> "s" [] c = DottedI -> "i" [] c = DotlessI -> "i"
    [] OTHER -> c

LowerText(s) == [i \in 1..Len(s) |-> Lower(s[i])]

\* ------------------------------------------------------------ patterns
\* MARKDOWN_LINK_PATTERN = \[([^\]]+)\]\((/[^)]+)\) tried at position i:
\* <<index of "]", index of the closing ")">>, or <<0, 0>> when it fails.
\* [^\]]+ must run to the first "]" and [^)]+ to the first ")", each over at
\* least one character; no other split of the text can match.
MARKDOWN_LINK_PATTERN(s, i) ==
  IF i > Len(s) \/ s[i] # "[" THEN <<0, 0>>
  ELSE LET j == IndexFrom(s, "]", i + 1) IN
       IF j = 0 \/ j = i + 1 THEN <<0, 0>>
       ELSE IF j + 2 > Len(s) \/ s[j + 1] # "(" \/ s[j + 2] # "/" THEN <<0, 0>>
       ELSE LET k == IndexFrom(s, ")", j + 3) IN
            IF k = 0 \/ k = j + 3 THEN <<0, 0>> ELSE <<j, k>>

\* EXTERNAL_LINK_PATTERN = ^(https?://|mailto:|#), case-insensitive
EXTERNAL_LINK_PATTERN(url) ==
  LET u == LowerText(url) IN
     \/ StartsWith(u, <<"h", "t", "t", "p", ":", "/", "/">>)
     \/ StartsWith(u, <<"h", "t", "t", "p", "s", ":", "/", "/">>)
     \/ StartsWith(u, <<"m", "a", "i", "l", "t", "o", ":">>)
     \/ StartsWith(u, <<"#">>)

\* ------------------------------------------------------------ paths
\* Path("website/content")
ContentRoot == << <<"w", "e", "b", "s", "i", "t", "e">>, <<"c", "o", "n", "t", "e", "n", "t">> >>

\* Path.parent
Parent(p) == SubSeq(p, 1, Len(p) - 1)

\* Path.relative_to(base), for a path under base
RelativeTo(p, base) == SubSeq(p, Len(base) + 1, Len(p))

RECURSIVE lstrip(_)

\* to_path[1:] on a path that begins with a slash: one slash goes, not all
lstrip_one(s) == IF Len(s) > 0 /\ s[1] = "/" THEN Tail(s) ELSE s

\* str.lstrip('/'): every leading slash goes
lstrip(s) == IF Len(s) > 0 /\ s[1] = "/" THEN lstrip(Tail(s)) ELSE s

UpSegment == <<".", ".", "/">>

\* the depth taken from the file instead of from its directory
calculate_relative_path_file_depth(from_file, to_path) ==
  LET stripped == lstrip(to_path)
      levels_up == Len(RelativeTo(from_file, ContentRoot))
  IN  IF levels_up = 0 THEN stripped ELSE Repeat(UpSegment, levels_up) \o stripped

\* ".." * levels_up, the separator forgotten
calculate_relative_path_no_sep(from_file, to_path) ==
  LET stripped == lstrip(to_path)
      levels_up == Len(RelativeTo(Parent(from_file), ContentRoot))
  IN  IF levels_up = 0 THEN stripped ELSE Repeat(<<".", ".">>, levels_up) \o stripped

calculate_relative_path(from_file, to_path) ==
  LET stripped == lstrip(to_path)
      from_dir == RelativeTo(Parent(from_file), ContentRoot)
      levels_up == Len(from_dir)
  IN  IF levels_up = 0 THEN stripped ELSE Repeat(UpSegment, levels_up) \o stripped

\* ------------------------------------------------------------ console
\* one printed line: what it says and the values it formats
Msg(kind, n, path, url, rel) == [kind |-> kind, n |-> n, path |-> path, url |-> url, rel |-> rel]

\* ------------------------------------------------------------ the rewriter
\* the one element of a one-element set; {e : x \in {v}} has v worked out
\* once, however often e reads x
Only(S) == CHOOSE x \in S : TRUE

\* the match object of MARKDOWN_LINK_PATTERN at position i: end is where the
\* match ends (0: no match here), group0, link_text and link_url are
\* match.group(0), match.group(1) and match.group(2)
MatchAt(s, i) ==
  Only({ IF m[2] = 0
         THEN [end |-> 0, group0 |-> <<>>, link_text |-> <<>>, link_url |-> <<>>]
         ELSE [end       |-> m[2],
               group0    |-> SubSeq(s, i, m[2]),
               link_text |-> SubSeq(s, i + 1, m[1] - 1),
               link_url  |-> SubSeq(s, m[1] + 2, m[2] - 1)]
         : m \in {MARKDOWN_LINK_PATTERN(s, i)} })

\* replace_link(match): the replacement text, the increment of fixed_links,
\* what was printed and the call made to calculate_relative_path
replace_link(file_path, match) ==
  IF EXTERNAL_LINK_PATTERN(match.link_url)
  THEN [text |-> match.group0, fixed |-> 0, printed |-> <<>>, calls |-> {}]
  ELSE IF ~StartsWith(match.link_url, <<"/">>)
  THEN [text |-> match.group0, fixed |-> 0, printed |-> <<>>, calls |-> {}]
  ELSE Only({ [text    |-> <<"[">> \o match.link_text \o <<"]", "(">> \o relative_url \o <<")">>,
               fixed   |-> 1,
               printed |-> << Msg("Fixed", 0, <<>>, match.link_url, relative_url) >>,
               calls   |-> {[from |-> file_path, to |-> match.link_url, rel |-> relative_url]}]
              : relative_url \in {calculate_relative_path(file_path, match.link_url)} })

\* nothing scanned yet: no output, no link fixed, nothing printed
Scanned0 == [content |-> <<>>, fixed_links |-> 0, printed |-> <<>>, calls |-> {}]

\* the scan so far with one more replacement
Joined(acc, r) ==
  [content     |-> acc.content \o r.text,
   fixed_links |-> acc.fixed_links + r.fixed,
   printed     |-> acc.printed \o r.printed,
   calls       |-> acc.calls \cup r.calls]

\* re's search from position i: where the leftmost match at or after i
\* starts, 0 if there is none
search(s, i) ==
  Only({ IF starts = {} THEN 0 ELSE CHOOSE j \in starts : \A k \in starts : j <= k
         : starts \in {{ j \in i..Len(s) : MARKDOWN_LINK_PATTERN(s, j)[2] # 0 }} })

\* the scan so far with the text s[i..j] copied as it is
Copied(acc, s, i, j) == [acc EXCEPT !.content = @ \o SubSeq(s, i, j)]

\* one step of re.sub from position i, acc being what the scan has produced so
\* far: the text up to the leftmost match is copied, the match is replaced and
\* the scan resumes after it; with no match left the rest is copied
scan_step(file_path, s, i, acc) ==
  Only({ IF at = 0
         THEN [next |-> Len(s) + 1, out |-> Copied(acc, s, i, Len(s))]
         ELSE Only({ [next |-> match.end + 1,
                      out  |-> Only({Joined(before_match, r)
                                     : r \in {replace_link(file_path, match)},
                                       before_match \in {Copied(acc, s, i, at - 1)}})]
                     : match \in {MatchAt(s, at)} })
         : at \in {search(s, i)} })

\* MARKDOWN_LINK_PATTERN.sub(replace_link, content) from position i on
RECURSIVE sub(_, _, _, _)
sub(file_path, s, i, acc) ==
  IF i > Len(s) THEN acc
  ELSE Only({ sub(path, text, step.next, step.out)
              : path \in {file_path}, text \in {s}, step \in {scan_step(file_path, s, i, acc)} })

\* ------------------------------------------------------------ text-mode I/O
\* f.read() of a file opened in text mode (newline=None): "\r\n" and a lone
\* "\r" are read as "\n".  kept lists the positions that survive: every one
\* but a "\n" that follows a "\r".
read_text(bytes) ==
  Only({ [k \in 1..Len(kept) |-> IF bytes[kept[k]] = "\r" THEN "\n" ELSE bytes[kept[k]]]
         : kept \in {SelectSeq([i \in 1..Len(bytes) |-> i],
                               LAMBDA i : ~(bytes[i] = "\n" /\ i > 1 /\ bytes[i - 1] = "\r"))} })

\* os.linesep where the script runs (POSIX)
linesep == "\n"

\* f.write() to a file opened in text mode (newline=None): each "\n" is
\* written as os.linesep
write_text(text) == [i \in 1..Len(text) |-> IF text[i] = "\n" THEN linesep ELSE text[i]]

\* what open(), read() and write() do to one file.  "read_error": open(.., 'r')
\* or read() raises.  "open_error": open(.., 'w') raises, the file is left as
\* it was.  "write_error": open(.., 'w') succeeds and empties the file, then
\* the device takes room characters and no more (a full disk, a file size
\* limit): a longer text raises in write() or at close.
Ok == [kind |-> "ok", room |-> 0]
IOModes ==
  {Ok, [kind |-> "read_error", room |-> 0], [kind |-> "open_error", room |-> 0]}
    \cup {[kind |-> "write_error", room |-> k] : k \in 0..MaxRoom}

\* lines 41-67: the file read as text, then the substitution made on it
scanned(file_path, on_disk) ==
  Only({ sub(file_path, content, 1, Scanned0) : content \in {read_text(on_disk)} })

\* the outcome of a call that raised before the file was opened for writing
Failed(file_path, on_disk, found, printed, calls) ==
  [ret |-> 0, disk |-> on_disk, opened |-> FALSE, wrote |-> FALSE, found |-> found,
   raised |-> TRUE,
   printed |-> printed \o << Msg("Error", 0, file_path, <<>>, <<>>) >>, calls |-> calls]

\* the outcome of a call that found no link to fix: nothing opened for writing
Untouched(on_disk) ==
  [ret |-> 0, disk |-> on_disk, opened |-> FALSE, wrote |-> FALSE, found |-> 0,
   raised |-> FALSE, printed |-> <<>>, calls |-> {}]

\* lines 70-74 (and 76-78 when the write raises), out being the characters
\* write() sends to the file and r what the substitution gave
Written(file_path, io, r, out) ==
  IF io.kind = "write_error" /\ Len(out) > io.room
  THEN [ret |-> 0, disk |-> SubSeq(out, 1, io.room), opened |-> TRUE, wrote |-> FALSE,
        found |-> r.fixed_links, raised |-> TRUE,
        printed |-> r.printed \o << Msg("Error", 0, file_path, <<>>, <<>>) >>,
        calls |-> r.calls]
  ELSE [ret |-> r.fixed_links, disk |-> out, opened |-> TRUE, wrote |-> TRUE,
        found |-> r.fixed_links, raised |-> FALSE,
        printed |-> r.printed \o << Msg("FixedFile", r.fixed_links, file_path, <<>>, <<>>) >>,
        calls |-> r.calls]

\* the write done whatever fixed_links is
fix_links_in_file_always_writes(file_path, on_disk, io) ==
  IF io.kind = "read_error" THEN Failed(file_path, on_disk, 0, <<>>, {})
  ELSE Only({
       IF io.kind = "open_error"
       THEN Failed(file_path, on_disk, r.fixed_links, r.printed, r.calls)
       ELSE Only({ Written(file_path, io, r, out) : out \in {write_text(r.content)} })
       : r \in {scanned(file_path, on_disk)} })

\* the except branch returning the count reached so far
fix_links_in_file_error_count(file_path, on_disk, io) ==
  IF io.kind = "read_error" THEN Failed(file_path, on_disk, 0, <<>>, {})
  ELSE Only({
       IF r.fixed_links = 0 THEN Untouched(on_disk)
       ELSE IF io.kind = "open_error"
       THEN [Failed(file_path, on_disk, r.fixed_links, r.printed, r.calls)
               EXCEPT !.ret = r.fixed_links]
       ELSE Only({ [w EXCEPT !.ret = r.fixed_links]
                   : w \in {Written(file_path, io, r, write_text(r.content))} })
       : r \in {scanned(file_path, on_disk)} })

\* fix_links_in_file(file_path) on a file holding on_disk, io saying what I/O
\* on it does.  ret is the value returned, disk the file afterwards, opened
\* whether open(.., 'w') succeeded (the file was emptied), wrote whether the
\* write went through, found the value of fixed_links when the function
\* ends, raised whether the except branch ran.  r is what the substitution of
\* line 67 gives on the text read.
fix_links_in_file(file_path, on_disk, io) ==
  IF io.kind = "read_error" THEN Failed(file_path, on_disk, 0, <<>>, {})
  ELSE Only({
       IF r.fixed_links = 0 THEN Untouched(on_disk)
       ELSE IF io.kind = "open_error"
       THEN Failed(file_path, on_disk, r.fixed_links, r.printed, r.calls)
       ELSE Only({ Written(file_path, io, r, out) : out \in {write_text(r.content)} })
       : r \in {scanned(file_path, on_disk)} })

\* ------------------------------------------------------------ file contents
\* [a](/x)   an absolute-internal link
AbsLink == <<"[", "a", "]", "(", "/", "x", ")">>

\* [x](/a/b)   an absolute-internal link to a nested target
AbsDeep == <<"[", "x", "]", "(", "/", "a", "/", "b", ")">>

\* [b](//x)   a target with two leading slashes
TwoSlash == <<"[", "b", "]", "(", "/", "/", "x", ")">>

\* [h](/)   a link to the root itself
RootLink == <<"[", "h", "]", "(", "/", ")">>

\* [u](/../x)   a target that climbs above the root
DotDot == <<"[", "u", "]", "(", "/", ".", ".", "/", "x", ")">>

\* [d](#s)   an anchor link
AnchorLink == <<"[", "d", "]", "(", "#", "s", ")">>

\* [c](./y)   a relative link
RelLink == <<"[", "c", "]", "(", ".", "/", "y", ")">>

\* [b](//)   a target made of slashes only
OnlySlashes == <<"[", "b", "]", "(", "/", "/", ")">>

\* [a](/x   an absolute-internal link not closed yet
Unclosed == <<"[", "a", "]", "(", "/", "x">>

\* [r](y   a relative link not closed yet
RelOpen == <<"[", "r", "]", "(", "y">>

\* a line end of two bytes, carriage return and line feed
CrLf == <<"\r", "\n">>

\* a carriage return alone
Cr == <<"\r">>

\* [t](a\r\nb)   a relative link with a two-byte line end in its url
RelCrLf == <<"[", "t", "]", "(", "a", "\r", "\n", "b", ")">>

Items == {AbsLink, AbsDeep, TwoSlash, RootLink, DotDot, AnchorLink, RelLink, OnlySlashes, Unclosed, RelOpen, CrLf, Cr, RelCrLf}

\* the line of the mixed-link case
MixedLine == <<"[", "a", "]", "(", "/", "x", ")", ",", " ", "[", "b", "]", "(", "h", "t", "t", "p", ":", "/", "/", "e", "x", "t", ".", "c", "o", "m", ")", ",", " ", "[", "c", "]", "(", ".", "/", "y", ")", ",", " ", "[", "d", "]", "(", "#", "a", "n", "c", "h", "o", "r", ")">>

\* external links only: the scheme in capitals, in small letters, and with
\* the dotless i that re.IGNORECASE takes for an "i"
ExternalLine == <<"[", "E", "]", "(", "H", "T", "T", "P", "S", ":", "/", "/", "e", ")", " ", "[", "m", "]", "(", "m", "a", "i", "l", "t", "o", ":", "m", ")", " ", "[", "n", "]", "(", "m", "a", DotlessI, "l", "t", "o", ":", "n", ")">>

\* two absolute-internal links
TwoAbsLine == <<"[", "x", "]", "(", "/", "a", "/", "b", ")", " ", "[", "b", "]", "(", "/", "/", "x", ")">>

\* every text made of at most n items
RECURSIVE Concats(_)
Concats(n) ==
  IF n = 0 THEN {<<>>}
  ELSE LET shorter == Concats(n - 1) IN shorter \cup {t \o i : t \in shorter, i \in Items}

Inputs == Concats(MaxItems) \cup {MixedLine, ExternalLine}

\* a relative link holding a line end, then an absolute-internal link
CrLfLine == RelCrLf \o <<" ">> \o AbsLink

DriverContents == {RelLink, TwoAbsLine, CrLfLine}

\* the directory d levels below the content root, and the i-th file name
Dir(d) == [k \in 1..d |-> Repeat(<<"s">>, k)]
FileName(i) == Repeat(<<"p">>, i) \o <<".", "m", "d">>
FilePath(d, i) == ContentRoot \o Dir(d) \o << FileName(i) >>
Min(a, b) == IF a < b THEN a ELSE b

\* ------------------------------------------------------------ state
VARIABLES
  root_exists,   \* whether website/content exists
  files,         \* the *.md files under it: path and what I/O on it does
  disk,          \* the content of each file
  before,        \* the content of each file when the current run began
  run,           \* how many times the script has been started
  pc,            \* where main is: "start", "loop", "done" or "exit"
  pending,       \* the files rglob has still to yield
  total_fixed,   \* main's total_fixed
  total_files,   \* main's total_files
  returned,      \* what fix_links_in_file returned for each file, -1 before
  invoked,       \* how many times fix_links_in_file was called on each file
  found,         \* fixed_links at the end of each file's call
  opened,        \* the files opened for writing (and emptied) in this run
  written,       \* the files whose write went through in this run
  raised,        \* the files whose call ended in the except branch
  conv,          \* the calls of calculate_relative_path: from, to, result
  stdout,        \* the lines printed in this run
  exit_status    \* the exit status, -1 while the script runs

vars == <<root_exists, files, disk, before, run, pc, pending, total_fixed, total_files,
          returned, invoked, found, opened, written, raised, conv, stdout, exit_status>>

Ids == 1..Len(files)

\* a fresh process: nothing counted, nothing printed
Fresh ==
  /\ pc = "start"
  /\ pending = {}
  /\ total_fixed = 0
  /\ total_files = 0
  /\ returned = [i \in Ids |-> -1]
  /\ invoked = [i \in Ids |-> 0]
  /\ found = [i \in Ids |-> 0]
  /\ opened = {}
  /\ written = {}
  /\ raised = {}
  /\ conv = {}
  /\ stdout = <<>>
  /\ exit_status = -1

\* no content root, hence no file under it
InitMissing ==
  /\ root_exists = FALSE
  /\ files = <<>>
  /\ disk = <<>>

\* one readable and writable file, at any depth, holding any input
InitOneFile ==
  /\ root_exists = TRUE
  /\ \E d \in 0..MaxDepth :
       files = << [path |-> FilePath(d, 1), io |-> Ok] >>
  /\ \E c \in Inputs : disk = << c >>

\* up to MaxFiles files, the i-th one i - 1 levels down; the files of bad all
\* fail the same way
InitTree ==
  /\ root_exists = TRUE
  /\ \E n \in 0..MaxFiles :
       /\ \E bad \in SUBSET (1..n), m \in IOModes \ {Ok} :
            files = [i \in 1..n |-> [path |-> FilePath(Min(i - 1, MaxDepth), i),
                                      io   |-> IF i \in bad THEN m ELSE Ok]]
       /\ \E cs \in [1..n -> DriverContents] : disk = cs

Init ==
  /\ InitMissing \/ InitOneFile \/ InitTree
  /\ before = disk
  /\ run = 1
  /\ Fresh

\* ------------------------------------------------------------ main
\* the error printed, the exit forgotten
MainRootMissing_no_exit ==
  /\ pc = "start"
  /\ ~root_exists
  /\ stdout' = Append(stdout, Msg("NotFound", 0, ContentRoot, <<>>, <<>>))
  /\ pc' = "loop"
  /\ pending' = Ids
  /\ UNCHANGED <<root_exists, files, disk, before, run, total_fixed, total_files,
                 returned, invoked, found, opened, written, raised, conv, exit_status>>

\* lines 83-85: the content root is missing
MainRootMissing ==
  /\ pc = "start"
  /\ ~root_exists
  /\ stdout' = Append(stdout, Msg("NotFound", 0, ContentRoot, <<>>, <<>>))
  /\ exit_status' = 1
  /\ pc' = "exit"
  /\ UNCHANGED <<root_exists, files, disk, before, run, pending, total_fixed, total_files,
                 returned, invoked, found, opened, written, raised, conv>>

\* lines 87-94: the banner, the totals set to zero, rglob started
MainStart ==
  /\ pc = "start"
  /\ root_exists
  /\ stdout' = stdout \o << Msg("Converting", 0, <<>>, <<>>, <<>>),
                            Msg("Processing", 0, ContentRoot, <<>>, <<>>) >>
  /\ total_fixed' = 0
  /\ total_files' = 0
  /\ pending' = Ids
  /\ pc' = "loop"
  /\ UNCHANGED <<root_exists, files, disk, before, run,
                 returned, invoked, found, opened, written, raised, conv, exit_status>>

\* total_fixed = fixed_count in place of +=
MainLoop_overwrites_total(f) ==
  /\ pc = "loop"
  /\ f \in pending
  /\ \E r \in {fix_links_in_file(files[f].path, disk[f], files[f].io)} :
       /\ total_files' = total_files + 1
       /\ total_fixed' = r.ret
       /\ disk' = [disk EXCEPT ![f] = r.disk]
       /\ returned' = [returned EXCEPT ![f] = r.ret]
       /\ invoked' = [invoked EXCEPT ![f] = @ + 1]
       /\ found' = [found EXCEPT ![f] = r.found]
       /\ opened' = IF r.opened THEN opened \cup {f} ELSE opened
       /\ written' = IF r.wrote THEN written \cup {f} ELSE written
       /\ raised' = IF r.raised THEN raised \cup {f} ELSE raised
       /\ conv' = conv \cup r.calls
       /\ stdout' = stdout \o r.printed
  /\ pending' = pending \ {f}
  /\ UNCHANGED <<root_exists, files, before, run, pc, exit_status>>

\* lines 94-97: one turn of the loop, on the file rglob yields (in any order)
MainLoop(f) ==
  /\ pc = "loop"
  /\ f \in pending
  /\ \E r \in {fix_links_in_file(files[f].path, disk[f], files[f].io)} :
       /\ total_files' = total_files + 1
       /\ total_fixed' = total_fixed + r.ret
       /\ disk' = [disk EXCEPT ![f] = r.disk]
       /\ returned' = [returned EXCEPT ![f] = r.ret]
       /\ invoked' = [invoked EXCEPT ![f] = @ + 1]
       /\ found' = [found EXCEPT ![f] = r.found]
       /\ opened' = IF r.opened THEN opened \cup {f} ELSE opened
       /\ written' = IF r.wrote THEN written \cup {f} ELSE written
       /\ raised' = IF r.raised THEN raised \cup {f} ELSE raised
       /\ conv' = conv \cup r.calls
       /\ stdout' = stdout \o r.printed
  /\ pending' = pending \ {f}
  /\ UNCHANGED <<root_exists, files, before, run, pc, exit_status>>

\* lines 99-101 and the end of the script: the summary, exit status 0
MainSummary ==
  /\ pc = "loop"
  /\ pending = {}
  /\ stdout' = stdout \o << Msg("Summary", 0, <<>>, <<>>, <<>>),
                            Msg("Processed", total_files, <<>>, <<>>, <<>>),
                            Msg("FixedTotal", total_fixed, <<>>, <<>>, <<>>) >>
  /\ exit_status' = 0
  /\ pc' = "done"
  /\ UNCHANGED <<root_exists, files, disk, before, run, pending, total_fixed, total_files,
                 returned, invoked, found, opened, written, raised, conv>>

\* line 104: the script is started again on the tree the last run left
Rerun ==
  /\ pc \in {"done", "exit"}
  /\ run < MaxRuns
  /\ run' = run + 1
  /\ before' = disk
  /\ pc' = "start"
  /\ pending' = {}
  /\ total_fixed' = 0
  /\ total_files' = 0
  /\ returned' = [i \in Ids |-> -1]
  /\ invoked' = [i \in Ids |-> 0]
  /\ found' = [i \in Ids |-> 0]
  /\ opened' = {}
  /\ written' = {}
  /\ raised' = {}
  /\ conv' = {}
  /\ stdout' = <<>>
  /\ exit_status' = -1
  /\ UNCHANGED <<root_exists, files, disk>>

Next ==
  \/ MainRootMissing
  \/ MainStart
  \/ \E f \in Ids : MainLoop(f)
  \/ MainSummary
  \/ Rerun

Spec == Init /\ [][Next]_vars

\* main runs to its end once started: each of its steps is taken when it can be
FairSpec ==
  /\ Spec
  /\ WF_vars(MainRootMissing)
  /\ WF_vars(MainStart)
  /\ WF_vars(\E f \in Ids : MainLoop(f))
  /\ WF_vars(MainSummary)

\* ------------------------------------------------------------ vocabulary of the claims
\* how many directories lie between the content root and the file
DepthOf(path) == Len(path) - Len(ContentRoot) - 1

Slash == <<"/">>

\* text without its first k characters
Drop(s, k) == SubSeq(s, k + 1, Len(s))

\* the number of slashes text begins with
LeadingSlashes(s) ==
  IF s = <<>> \/ s[1] # "/" THEN 0
  ELSE CHOOSE k \in 1..Len(s) :
         /\ \A i \in 1..k : s[i] = "/"
         /\ (k = Len(s) \/ s[k + 1] # "/")

\* a place in the tree, seen from the content root: up levels above it, then
\* down the directories segs
RootPlace == [up |-> 0, segs |-> <<>>]

Enter(place, seg) ==
  IF seg = <<>> \/ seg = <<".">> THEN place
  ELSE IF seg = <<".", ".">>
  THEN IF place.segs = <<>>
       THEN [place EXCEPT !.up = @ + 1]
       ELSE [place EXCEPT !.segs = SubSeq(@, 1, Len(@) - 1)]
  ELSE [place EXCEPT !.segs = Append(@, seg)]

\* the place a path leads to from a place; seg is the segment being read
RECURSIVE Resolve(_, _, _)
Resolve(place, s, seg) ==
  IF s = <<>> THEN Enter(place, seg)
  ELSE IF Head(s) = "/" THEN Resolve(Enter(place, seg), Tail(s), <<>>)
  ELSE Resolve(place, Tail(s), Append(seg, Head(s)))

\* the directory of a file, as a place
PlaceOfDir(path) ==
  [up |-> 0, segs |-> SubSeq(path, Len(ContentRoot) + 1, Len(path) - 1)]

\* [text](url) read at position i, whatever the url begins with:
\* <<index of "]", index of ")">>, or <<0, 0>>
LinkAt(s, i) ==
  IF i > Len(s) \/ s[i] # "[" THEN <<0, 0>>
  ELSE LET j == IndexFrom(s, "]", i + 1) IN
       IF j = 0 \/ j = i + 1 \/ j + 1 > Len(s) \/ s[j + 1] # "(" THEN <<0, 0>>
       ELSE LET k == IndexFrom(s, ")", j + 2) IN
            IF k = 0 \/ k = j + 2 THEN <<0, 0>> ELSE <<j, k>>

UrlOf(s, m) == SubSeq(s, m[1] + 2, m[2] - 1)

\* text with its slashes, dots and line ends taken out: what a rewrite never
\* changes
Skeleton(s) == SelectSeq(s, LAMBDA c : c \notin {"/", ".", "\r", "\n"})

\* a is the beginning of b
IsPrefix(a, b) == Len(a) <= Len(b) /\ SubSeq(b, 1, Len(a)) = a

\* the text fix_links_in_file has to write for a file holding bytes
Rewritten(file_path, bytes) == write_text(scanned(file_path, bytes).content)

\* the link at p..q of s stands in out, byte for byte, at the same place
StandsIn(s, p, q, out) ==
  \E o \in 1..(Len(out) - (q - p)) :
     /\ SubSeq(out, o, o + (q - p)) = SubSeq(s, p, q)
     /\ Skeleton(SubSeq(out, 1, o - 1)) = Skeleton(SubSeq(s, 1, p - 1))

\* the sum of what the rewriter returned for the files of S
RECURSIVE SumReturned(_)
SumReturned(S) ==
  IF S = {} THEN 0
  ELSE LET f == CHOOSE x \in S : TRUE IN returned[f] + SumReturned(S \ {f})

Processed == {f \in Ids : invoked[f] > 0}

Printed(kind) == {i \in 1..Len(stdout) : stdout[i].kind = kind}

\* the rewrite section 4.2 describes: every [text](url) is found, its url is
\* classified, and an absolute-internal one is replaced
RECURSIVE RewriteEveryLink(_, _, _)
RewriteEveryLink(s, i, depth) ==
  IF i > Len(s) THEN [content |-> <<>>, count |-> 0]
  ELSE LET m == LinkAt(s, i) IN
       IF m[2] = 0
       THEN LET rest == RewriteEveryLink(s, i + 1, depth) IN
            [rest EXCEPT !.content = <<s[i]>> \o rest.content]
       ELSE LET rest == RewriteEveryLink(s, m[2] + 1, depth)
                url == UrlOf(s, m)
            IN  IF url[1] = "/"
                THEN [content |-> SubSeq(s, i, m[1] + 1) \o Repeat(UpSegment, depth)
                                    \o Drop(url, LeadingSlashes(url)) \o <<")">> \o rest.content,
                      count |-> 1 + rest.count]
                ELSE [rest EXCEPT !.content = SubSeq(s, i, m[2]) \o rest.content]

\* ------------------------------------------------------------ claims

\* C1: idempotence.  In a second run on the tree the first run left, every
\* file that can be read and written reports 0 fixed links and keeps its
\* content.  Stated as the claim states it; the code breaks it.
C1_Idempotent ==
  \A f \in Ids :
     (run >= 2 /\ files[f].io = Ok /\ invoked[f] = 1)
        => (returned[f] = 0 /\ f \notin written /\ disk[f] = before[f])

\* C2: pass-through.  In the text the rewrite takes, every link [text](url)
\* whose url does not begin with "/" (external links among them) stands byte
\* for byte, at the same place, in the text the rewrite gives.  Stated as the
\* claim states it, on the text read from each file that was read and the
\* text the substitution made of it; the code breaks it.
C2_EveryOtherLinkPasses ==
  \A f \in Ids :
     (invoked[f] = 1 /\ files[f].io.kind # "read_error") =>
        LET text == read_text(before[f])
            out  == scanned(files[f].path, before[f]).content
        IN  \A p \in 1..Len(text) :
               LET m == LinkAt(text, p) IN
                  (m[2] # 0 /\ UrlOf(text, m)[1] # "/") => StandsIn(text, p, m[2], out)

\* C3, as the claim states it: a file with no absolute-internal link found is
\* not written and keeps its content; a file with at least one found holds the
\* rewritten text afterwards.
C3_WrittenIffFound ==
  \A f \in Processed :
     /\ found[f] = 0 => (f \notin written /\ disk[f] = before[f])
     /\ found[f] > 0 =>
          (f \in written /\ disk[f] = Rewritten(files[f].path, before[f]))

\* C3, amended: a file is opened for writing only if a link was found in it;
\* with none found it is not opened for writing and keeps its content, byte for
\* byte; with at least one found and no error raised it holds the rewritten
\* text; when the write raises, it is left as it was or holds a beginning of
\* the rewritten text.
C3_WrittenIffFoundAndNoError ==
  \A f \in Ids :
     /\ f \in opened => (found[f] > 0 /\ invoked[f] = 1)
     /\ written \subseteq opened
     /\ f \notin opened => disk[f] = before[f]
     /\ (invoked[f] = 1 /\ found[f] = 0) => f \notin opened
     /\ (invoked[f] = 1 /\ found[f] > 0 /\ f \notin raised) =>
          (/\ f \in written
           /\ disk[f] = Rewritten(files[f].path, before[f])
           /\ disk[f] # before[f])
     /\ (invoked[f] = 1 /\ found[f] > 0 /\ f \in raised) =>
          (/\ f \notin written
           /\ IF f \in opened
              THEN /\ IsPrefix(disk[f], Rewritten(files[f].path, before[f]))
                   /\ disk[f] # Rewritten(files[f].path, before[f])
              ELSE disk[f] = before[f])

\* C3 witness: a run that left one file alone, having found nothing in it, and
\* wrote another, whose line ends it changed.
C3_Witness ==
  /\ pc = "done"
  /\ \E f \in Processed, g \in written :
        /\ found[f] = 0 /\ f \notin raised
        /\ found[g] > 0 /\ before[g] = CrLfLine
        /\ disk[g] = Rewritten(files[g].path, before[g])

\* C4: the path calculate_relative_path returns, followed from the directory
\* of the source file, leads to the place the target leads to from the
\* content root.
C4_SameLocation ==
  \A c \in conv :
     /\ c.to[1] = "/"
     /\ Resolve(PlaceOfDir(c.from), c.rel, <<>>) = Resolve(RootPlace, c.to, <<>>)

\* C4 witness: a target climbing above the root, converted one level down.
C4_Witness ==
  \E c \in conv :
     /\ DepthOf(c.from) = 1
     /\ c.to = <<"/", ".", ".", "/", "x">>
     /\ Resolve(PlaceOfDir(c.from), c.rel, <<>>) = [up |-> 1, segs |-> << <<"x">> >>]

\* C5: a file whose read or write raises is caught: it contributes 0, its
\* error is printed, the loop goes on with the files left, and the run ends
\* with the summary printed and exit status 0.
C5_FailureIsolation ==
  /\ \A f \in raised :
        /\ files[f].io # Ok
        /\ returned[f] = 0
        /\ \E i \in Printed("Error") : stdout[i].path = files[f].path
  /\ total_fixed = SumReturned(Processed \ raised)
  /\ raised # {} =>
        /\ exit_status \in {-1, 0}
        /\ pc \in {"loop", "done"}
        /\ (pc = "loop" /\ pending = {}) => ENABLED MainSummary
        /\ \A f \in pending : ENABLED MainLoop(f)
        /\ pc = "done" =>
              /\ exit_status = 0
              /\ Processed = Ids
              /\ Printed("Summary") # {}
              /\ \E i \in Printed("FixedTotal") :
                    stdout[i].n = SumReturned(Ids \ raised)

\* C5 witness: a finished run in which a file failed and a file processed
\* after it was fixed.
C5_Witness ==
  /\ pc = "done"
  /\ \E i \in Printed("Error"), j \in Printed("FixedFile") : i < j

\* C6: with no content root, main prints the error and exits with status 1:
\* no file is discovered, read or written and no summary is printed.
C6_MissingRoot ==
  ~root_exists =>
     /\ pc \in {"start", "exit"}
     /\ pending = {} /\ Processed = {} /\ opened = {} /\ written = {} /\ conv = {}
     /\ total_files = 0 /\ total_fixed = 0
     /\ disk = before
     /\ Printed("Summary") = {} /\ Printed("Processed") = {}
     /\ pc = "start" => (exit_status = -1 /\ stdout = <<>> /\ ENABLED MainRootMissing)
     /\ pc = "exit" =>
           /\ exit_status = 1
           /\ Len(stdout) = 1 /\ stdout[1].kind = "NotFound"

\* C6 witness: the script has exited on the missing root.
C6_Witness == ~root_exists /\ pc = "exit" /\ exit_status = 1 /\ Printed("NotFound") # {}

\* C7: the rewrite replaces every absolute-internal link by the same text
\* with the relative url and returns the number of replacements; the mixed
\* line yields 1.  Stated as the claim states it; the code breaks it.
C7_EveryAbsoluteLinkRewritten ==
  \A f \in Ids :
     (files[f].io = Ok /\ invoked[f] = 1) =>
        LET want == RewriteEveryLink(read_text(before[f]), 1, DepthOf(files[f].path)) IN
           /\ disk[f] = IF want.count = 0 THEN before[f] ELSE write_text(want.content)
           /\ returned[f] = want.count
           /\ before[f] = MixedLine => returned[f] = 1

\* C8, as the claim states it: the result is depth times "../" followed by the
\* target without its first character, the leading "/".
C8_OneSlashStripped ==
  \A c \in conv :
     c.rel = Repeat(<<".", ".", "/">>, DepthOf(c.from)) \o Tail(c.to)

\* C8, amended: the result is depth times "../" followed by the target without
\* all of its leading "/" characters; at depth 0 it is that stripped target.
C8_DepthPrefix ==
  \A c \in conv :
     /\ LeadingSlashes(c.to) >= 1
     /\ c.rel = Repeat(<<".", ".", "/">>, DepthOf(c.from)) \o Drop(c.to, LeadingSlashes(c.to))
     /\ DepthOf(c.from) = 0 => c.rel = Drop(c.to, LeadingSlashes(c.to))

\* C8 witness: /a/b converted two levels down gives ../../a/b.
C8_Witness ==
  \E c \in conv :
     /\ DepthOf(c.from) = 2
     /\ c.to = <<"/", "a", "/", "b">>
     /\ c.rel = <<".", ".", "/", ".", ".", "/", "a", "/", "b">>

\* what C9 says of every state: each file is passed to the rewriter at most
\* once, the totals count the files passed and sum what the rewriter
\* returned, and a finished run has passed every file, printed both totals and
\* exited with status 0.
C9_Safe ==
  root_exists =>
     /\ \A f \in Ids : invoked[f] <= 1
     /\ pc = "loop" => (pending \cap Processed = {} /\ pending \cup Processed = Ids)
     /\ pc \in {"loop", "done"} =>
           (total_files = Cardinality(Processed) /\ total_fixed = SumReturned(Processed))
     /\ exit_status \in {-1, 0}
     /\ pc \in {"start", "loop", "done"}
     /\ pc = "done" =>
           /\ exit_status = 0
           /\ \A f \in Ids : invoked[f] = 1
           /\ \E i \in Printed("Processed") : stdout[i].n = Len(files)
           /\ \E i \in Printed("FixedTotal") : stdout[i].n = SumReturned(Ids)

\* C9: with the content root there, every file is passed to the rewriter
\* exactly once, the run always ends, with exit status 0 (also with no file
\* and with nothing fixed), and the totals printed are the number of files
\* and the sum of what the rewriter returned.
C9_Driver ==
  /\ []C9_Safe
  /\ (root_exists /\ pc = "start") ~> (pc = "done" /\ exit_status = 0)

\* C9 witness: a finished run over several files, two of which had links fixed.
C9_Witness ==
  /\ pc = "done"
  /\ exit_status = 0
  /\ \E f \in Ids, g \in Ids : f # g /\ returned[f] > 0 /\ returned[g] > 0

\* C10: the url written for a rewritten link never begins with "/".
C10_NeverAbsolute ==
  \A c \in conv : c.rel = <<>> \/ c.rel[1] # "/"

\* C10 witness: a target with two leading slashes converted in the content
\* root, where nothing is put in front of it.
C10_Witness ==
  \E c \in conv :
     /\ DepthOf(c.from) = 0
     /\ LeadingSlashes(c.to) = 2
     /\ Len(c.rel) > 0

====
